---- MODULE Spec2Model ----
(***************************************************************************)
(* State-machine model of src/src/index.jsx: the App component (image      *)
(* upload, extrusion / side colour / back mode controls, GLB download) and *)
(* the ExtrudedImageBox component (texture-loading effect and memoised     *)
(* material array).                                                        *)
(*                                                                         *)
(* Every user event handler is one action.  A handler that sets React      *)
(* state is followed, inside the same action, by the re-render it causes:  *)
(* the useMemo dependency check of ExtrudedImageBox and its [image]        *)
(* effect.  The asynchronous completions (texture decodes, exporter        *)
(* callback) are actions of their own, taken in any order.                 *)
(***************************************************************************)
EXTENDS Integers, Sequences, FiniteSets, TLC

\* ---- bounds of the model ------------------------------------------------
MaxUploads == 2     \* file selections that carry a file
MaxExports == 2     \* clicks on "Download 3D Model"

\* ---- values ---------------------------------------------------------------
NoImage == 0                        \* useState(null): no object URL yet
DefaultExtrusion == 20              \* useState(0.2), in hundredths
DefaultSideColor == "#2196f3"       \* useState("#2196f3")
DefaultBackMode == "image"          \* useState("image")
White == "#fff"                     \* the literal of the flat front material

Depths == {DefaultExtrusion, 90}           \* range input, sampled
Colors == {DefaultSideColor, "#e91e63"}    \* colour input, sampled
BackModes == {"image", "color"}            \* the two <option> values

\* A THREE.Texture object.  img is the object URL it was loaded from; exp and
\* slot tell which loader.load call created it (exp = 0: the effect of
\* ExtrudedImageBox; exp = k, slot = 5 or 6: the front / back load of the
\* k-th handleDownload).  NoTex is texture.current of a fresh useRef().
NoTex == [img |-> 0, exp |-> 0, slot |-> 0]
PreviewTex(i) == [img |-> i, exp |-> 0, slot |-> 0]
ExportTex(i, k, s) == [img |-> i, exp |-> k, slot |-> s]

\* A THREE.MeshStandardMaterial, by the parameters that distinguish it.
FlatMat(c) == [kind |-> "flat", color |-> c, map |-> NoTex]
TexturedMat(t) == [kind |-> "textured", color |-> White, map |-> t]
NullMat == [kind |-> "null", color |-> "", map |-> NoTex]

VARIABLES
  imageUrl,      \* App state: 0 = null, i > 0 = the i-th object URL created
  extrusion,     \* App state
  sideColor,     \* App state
  backMode,      \* App state
  texture,       \* ExtrudedImageBox: texture.current
  loading,       \* object URLs whose loader.load of the effect is pending
  materials,     \* ExtrudedImageBox: the memoised array (<<>> = not mounted)
  memoDeps,      \* dependency values of the last useMemo computation
  exports        \* one record per handleDownload call

vars == <<imageUrl, extrusion, sideColor, backMode, texture, loading,
          materials, memoDeps, exports>>

\* ---- ExtrudedImageBox: the useMemo body ---------------------------------
\* [right, left, top, bottom, front, back] from (sideColor, texture.current,
\* backMode).
PreviewMaterialsNoFallback(sc, tex, bm) ==
  LET colorMat == FlatMat(sc)
      frontMat == IF tex /= NoTex THEN TexturedMat(tex) ELSE NullMat
      backMat  == IF bm = "image" /\ tex /= NoTex
                  THEN TexturedMat(tex) ELSE FlatMat(sc)
  IN  <<colorMat, colorMat, colorMat, colorMat, frontMat, backMat>>

PreviewMaterials(sc, tex, bm) ==
  LET colorMat == FlatMat(sc)
      frontMat == IF tex /= NoTex THEN TexturedMat(tex) ELSE FlatMat(White)
      backMat  == IF bm = "image" /\ tex /= NoTex
                  THEN TexturedMat(tex) ELSE FlatMat(sc)
  IN  <<colorMat, colorMat, colorMat, colorMat, frontMat, backMat>>

\* Dependency list of the useMemo; NoDeps before the first render of the box.
NoDeps == [texture |-> NoTex, sideColor |-> "", backMode |-> ""]
MemoDeps(tex, sc, bm) == [texture |-> tex, sideColor |-> sc, backMode |-> bm]

\* The box is rendered only under {imageUrl && ...}.
Mounted == materials /= <<>>

\* One render of App with state (img, sc, bm), and of ExtrudedImageBox under
\* it: useMemo recomputes when a dependency differs from the last render's,
\* then the [image] effect starts a load when image differs from the last
\* render's (or on mount).  No load is ever cancelled.
Render(img, sc, bm) ==
  IF img = NoImage
  THEN /\ materials' = <<>>
       /\ memoDeps' = NoDeps
       /\ loading' = loading
  ELSE /\ materials' = IF ~Mounted \/ MemoDeps(texture, sc, bm) /= memoDeps
                       THEN PreviewMaterials(sc, texture, bm)
                       ELSE materials
       /\ memoDeps' = MemoDeps(texture, sc, bm)
       /\ loading' = IF img /= imageUrl THEN loading \cup {img} ELSE loading

\* ---- App: event handlers --------------------------------------------------
\* handleFile: when e.target.files[0] is present, URL.createObjectURL
\* returns a fresh URL, which becomes imageUrl; otherwise nothing happens.
HandleFileClearsOnCancel(hasFile) ==
  IF ~hasFile
  THEN /\ imageUrl' = NoImage
       /\ Render(NoImage, sideColor, backMode)
       /\ UNCHANGED <<extrusion, sideColor, backMode, texture, exports>>
  ELSE /\ imageUrl < MaxUploads
       /\ imageUrl' = imageUrl + 1
       /\ Render(imageUrl + 1, sideColor, backMode)
       /\ UNCHANGED <<extrusion, sideColor, backMode, texture, exports>>

HandleFileResetsOnCancel(hasFile) ==
  IF ~hasFile
  THEN /\ texture' = NoTex
       /\ UNCHANGED <<imageUrl, extrusion, sideColor, backMode, loading,
                      materials, memoDeps, exports>>
  ELSE /\ imageUrl < MaxUploads
       /\ imageUrl' = imageUrl + 1
       /\ Render(imageUrl + 1, sideColor, backMode)
       /\ UNCHANGED <<extrusion, sideColor, backMode, texture, exports>>

HandleFile(hasFile) ==
  IF ~hasFile
  THEN UNCHANGED vars
  ELSE /\ imageUrl < MaxUploads
       /\ imageUrl' = imageUrl + 1
       /\ Render(imageUrl + 1, sideColor, backMode)
       /\ UNCHANGED <<extrusion, sideColor, backMode, texture, exports>>

\* onChange of the range input.
SetExtrusion(d) ==
  /\ d /= extrusion
  /\ extrusion' = d
  /\ Render(imageUrl, sideColor, backMode)
  /\ UNCHANGED <<imageUrl, sideColor, backMode, texture, exports>>

\* onChange of the colour input.
SetSideColor(c) ==
  /\ c /= sideColor
  /\ sideColor' = c
  /\ Render(imageUrl, c, backMode)
  /\ UNCHANGED <<imageUrl, extrusion, backMode, texture, exports>>

\* onChange of the select.
SetBackMode(m) ==
  /\ m /= backMode
  /\ backMode' = m
  /\ Render(imageUrl, sideColor, m)
  /\ UNCHANGED <<imageUrl, extrusion, sideColor, texture, exports>>

\* ---- ExtrudedImageBox: completions of loader.load -----------------------
\* onLoad: texture.current = tex.  A ref assignment: nothing re-renders.
LoadComplete(i) ==
  /\ i \in loading
  /\ loading' = loading \ {i}
  /\ texture' = PreviewTex(i)
  /\ UNCHANGED <<imageUrl, extrusion, sideColor, backMode, materials,
                 memoDeps, exports>>

\* onError: () => {}.  The file was not a decodable image.
LoadError(i) ==
  /\ i \in loading
  /\ loading' = loading \ {i}
  /\ UNCHANGED <<imageUrl, extrusion, sideColor, backMode, texture,
                 materials, memoDeps, exports>>

\* ---- App: handleDownload --------------------------------------------------
\* <button disabled={!imageUrl}>: a disabled button dispatches no click.
DownloadAlwaysEnabled == TRUE

DownloadEnabled == imageUrl /= NoImage

\* The material array of the THREE.Mesh built by the k-th handleDownload.
\* Each TextureLoader().load(img) returns a new Texture at once and decodes
\* in the background; map: null with color "#fff" is a flat white material.
ExportMaterials(sc, img, bm, k) ==
  LET frontMat == IF img /= NoImage
                  THEN TexturedMat(ExportTex(img, k, 5)) ELSE FlatMat(White)
      backMat  == IF bm = "image"
                  THEN IF img /= NoImage
                       THEN TexturedMat(ExportTex(img, k, 6))
                       ELSE FlatMat(White)
                  ELSE FlatMat(sc)
  IN  <<FlatMat(sc), FlatMat(sc), FlatMat(sc), FlatMat(sc), frontMat, backMat>>

\* The textures a material array refers to.
SceneTextures(mats) ==
  {mats[f].map : f \in {g \in DOMAIN mats : mats[g].kind = "textured"}}

\* The material objects of the exported Mesh, slot by slot: each slot of the
\* array literal is its own "new THREE.MeshStandardMaterial" expression, so
\* the n-th slot holds the n-th object created by the call.
ExportObjects == <<1, 2, 3, 4, 5, 6>>

\* Number of distinct material objects in an array of object identities.
DistinctMaterials(objs) == Cardinality({objs[f] : f \in DOMAIN objs})

\* ---- the exporter's result and the downloaded file ----------------------
\* Layout of the binary container (header, metadata chunk padded to 4 bytes,
\* binary chunk padded to 4 bytes), as the exporter writes it for an
\* ArrayBuffer result.
GlbHeaderBytes == 12
ChunkHeaderBytes == 8
JsonLens == {6}        \* metadata length, unaligned (space-padded to 8)
BinLens == {10, 12}    \* payload lengths, one unaligned and one aligned

Bytes(n) == [i \in 1..n |-> 0]

RECURSIVE Padded(_)
Padded(seq) == IF Len(seq) % 4 = 0 THEN seq ELSE Padded(Append(seq, 0))

Pad4(n) == n + ((4 - (n % 4)) % 4)

GlbBytes(jsonLen, binLen) ==
  Bytes(GlbHeaderBytes) \o Bytes(ChunkHeaderBytes) \o Padded(Bytes(jsonLen))
    \o Bytes(ChunkHeaderBytes) \o Padded(Bytes(binLen))

\* What the exporter passes to the completion callback: an ArrayBuffer
\* holding a binary container, or (when it did not produce binary output) a
\* plain object.  headerTotal is the total-length field of the header.
NoHeader == -1
GlbResult(jsonLen, binLen) ==
  [kind        |-> "ArrayBuffer",
   headerTotal |-> GlbHeaderBytes + ChunkHeaderBytes + Pad4(jsonLen)
                     + ChunkHeaderBytes + Pad4(binLen),
   size        |-> Len(GlbBytes(jsonLen, binLen))]
JsonResult(jsonLen) ==
  [kind |-> "object", headerTotal |-> NoHeader, size |-> jsonLen]
ExporterResults ==
  {GlbResult(j, b) : j \in JsonLens, b \in BinLens}
    \cup {JsonResult(j) : j \in JsonLens}

\* The Blob of the callback: gltf itself when it is an ArrayBuffer, else
\* the text JSON.stringify(gltf), which has no container header.  The
\* callback compares no length: lengthChecked is FALSE for every file.
DownloadedFile(gltf) ==
  [headerTotal  |-> IF gltf.kind = "ArrayBuffer"
                    THEN gltf.headerTotal ELSE NoHeader,
   size         |-> gltf.size,
   lengthChecked |-> FALSE]
NoFile == [headerTotal |-> NoHeader, size |-> 0, lengthChecked |-> FALSE]

\* An export whose callback has run (or that failed): scene, exporter and
\* textures were locals of handleDownload and are gone; file is what was
\* downloaded.
Finished(st, file) ==
  [scene |-> <<>>, objects |-> <<>>, backMode |-> "", undecoded |-> {},
   status |-> st, file |-> file]

\* handleDownload: build the scene, which starts the decode of each of its
\* textures, then call exporter.parse(scene, callback, {binary: true}) in
\* the same turn: no load event can be dispatched in between, so every
\* decode started here is still pending when the exporter gets the scene
\* (undecoded).
HandleDownload ==
  /\ DownloadEnabled
  /\ Len(exports) < MaxExports
  /\ LET k       == Len(exports) + 1
         scene   == ExportMaterials(sideColor, imageUrl, backMode, k)
         started == SceneTextures(scene)
     IN  exports' = Append(exports,
                      [scene     |-> scene,
                       objects   |-> ExportObjects,
                       backMode  |-> backMode,
                       undecoded |-> started,
                       status    |-> "pending",
                       file      |-> NoFile])
  /\ UNCHANGED <<imageUrl, extrusion, sideColor, backMode, texture,
                 loading, materials, memoDeps>>

\* The exporter calls the completion callback with its result gltf: Blob,
\* object URL, a.click().
ExportDone(k, gltf) ==
  /\ k \in DOMAIN exports
  /\ exports[k].status = "pending"
  /\ exports' = [exports EXCEPT ![k] = Finished("done", DownloadedFile(gltf))]
  /\ UNCHANGED <<imageUrl, extrusion, sideColor, backMode, texture,
                 loading, materials, memoDeps>>

\* The exporter fails; parse was given no error callback, so nothing runs.
ExportFail(k) ==
  /\ k \in DOMAIN exports
  /\ exports[k].status = "pending"
  /\ exports' = [exports EXCEPT ![k] = Finished("failed", NoFile)]
  /\ UNCHANGED <<imageUrl, extrusion, sideColor, backMode, texture,
                 loading, materials, memoDeps>>

\* Files delivered to the user so far.
Downloads == {k \in DOMAIN exports : exports[k].status = "done"}
\* Exports whose completion callback has not run yet.
PendingExports == {k \in DOMAIN exports : exports[k].status = "pending"}

\* Object URLs created and not revoked: one per selected file (handleFile)
\* and one per downloaded Blob (export callback).  URL.revokeObjectURL is
\* never called, so every URL created is still live.
LiveObjectUrls ==
  {<<"image", i>> : i \in 1..imageUrl} \cup {<<"blob", k>> : k \in Downloads}

\* ---- specification --------------------------------------------------------
Init ==
  /\ imageUrl = NoImage
  /\ extrusion = DefaultExtrusion
  /\ sideColor = DefaultSideColor
  /\ backMode = DefaultBackMode
  /\ texture = NoTex
  /\ loading = {}
  /\ materials = <<>>
  /\ memoDeps = NoDeps
  /\ exports = <<>>

Next ==
  \/ \E hasFile \in BOOLEAN : HandleFile(hasFile)
  \/ \E d \in Depths : SetExtrusion(d)
  \/ \E c \in Colors : SetSideColor(c)
  \/ \E m \in BackModes : SetBackMode(m)
  \/ \E i \in loading : LoadComplete(i)
  \/ \E i \in loading : LoadError(i)
  \/ HandleDownload
  \/ \E k \in DOMAIN exports : \E gltf \in ExporterResults :
       ExportDone(k, gltf)
  \/ \E k \in DOMAIN exports : ExportFail(k)

Spec == Init /\ [][Next]_vars

\* ---- properties -----------------------------------------------------------
\* C1: a decode that completes never becomes the active texture unless it is
\* the decode of the most recently uploaded image (a stale result is
\* discarded on arrival).
C1_StaleDecodeDiscarded ==
  [][texture' /= texture => texture' = PreviewTex(imageUrl')]_vars

\* C2: when handleDownload hands the scene to the exporter, no texture of
\* that scene is still being decoded.
C2_ExportAwaitsDecode ==
  \A k \in DOMAIN exports : exports[k].undecoded = {}

\* C3: every recomputation of the memoised materials uses no texture, or the
\* texture of the latest uploaded image, never that of a superseded image.
C3_RecomputeUsesLatestImage ==
  [][memoDeps' /= memoDeps =>
       memoDeps'.texture \in {NoTex, PreviewTex(imageUrl')}]_vars

\* C4: the front material of the preview is textured when an image has been
\* uploaded, in particular as soon as the decode of the current image has
\* completed, with no further user input.
C4_FrontTexturedOnceDecoded ==
  (imageUrl /= NoImage /\ texture = PreviewTex(imageUrl)) =>
     materials[5].kind = "textured"

\* C5: at most one export is in flight (started, callback not yet run).
C5_ExportExclusive == Cardinality(PendingExports) <= 1

\* C6: while no image has been uploaded no export has run and no file has
\* been produced; every export that runs was started with an image present.
C6_NoExportWithoutImage ==
  /\ imageUrl = NoImage => exports = <<>>
  /\ \A k \in PendingExports : exports[k].scene[5].map.img /= NoImage

C6_Witness == Downloads /= {}

\* C7: when the decode of an uploaded image fails, the texture is absent
\* right afterwards.
C7_FailedDecodeLeavesAbsent ==
  [][(\E i \in loading : LoadError(i)) => texture' = NoTex]_vars

\* C8: the preview array and every export array have exactly 6 defined
\* materials in the order [right, left, top, bottom, front, back]: four flat
\* side-colour materials, then the front (textured or flat white), then the
\* back (textured or flat side colour); with no texture the preview front is
\* flat white and the preview back flat side colour.
SixDefined(m) ==
  /\ Len(m) = 6
  /\ \A f \in 1..6 : m[f] /= NullMat /\ m[f].kind \in {"flat", "textured"}
  /\ \A f \in 1..4 : m[f].kind = "flat" /\ m[f] = m[1]
  /\ m[5].kind = "flat" => m[5] = FlatMat(White)
  /\ m[6].kind = "flat" => m[6] = m[1]

C8_SixDefinedMaterials ==
  /\ Mounted =>
       /\ SixDefined(materials)
       /\ materials[1] = FlatMat(sideColor)
       /\ memoDeps.texture = NoTex =>
            materials[5] = FlatMat(White) /\ materials[6] = FlatMat(sideColor)
  /\ \A k \in PendingExports : SixDefined(exports[k].scene)

C8_Witness ==
  /\ Mounted
  /\ memoDeps.texture = NoTex
  /\ sideColor /= DefaultSideColor
  /\ \E k \in PendingExports : exports[k].backMode = "color"
  /\ \E k \in PendingExports : exports[k].backMode = "image"

\* C9: with backMode "color" the back material equals the side material;
\* with backMode "image" and a texture present the back material equals the
\* front material; in the preview array and in every export array.
C9_BackEqualsSideOrFront ==
  /\ Mounted =>
       /\ backMode = "color" => materials[6] = materials[1]
       /\ (backMode = "image" /\ memoDeps.texture /= NoTex) =>
            materials[6] = materials[5]
  /\ \A k \in PendingExports :
       /\ exports[k].backMode = "color" =>
            exports[k].scene[6] = exports[k].scene[1]
       /\ exports[k].backMode = "image" =>
            exports[k].scene[6] = exports[k].scene[5]

\* C11: a change of extrusion depth alone leaves the six materials of the
\* preview unchanged (the memoised array is not recomputed), in every state
\* in which the depth change occurs.
C11_DepthChangeKeepsMaterials ==
  [][extrusion' /= extrusion => materials' = materials]_vars

\* C12: in an export with backMode "image" the front and the back material
\* reference one and the same texture object.
C12_ExportSharesTexture ==
  \A k \in PendingExports :
    exports[k].backMode = "image" =>
      exports[k].scene[5].map = exports[k].scene[6].map

\* C13: the scene given to the exporter has exactly 2 distinct material
\* objects: the four side faces share one, and the back shares the side
\* material (backMode "color") or the front material (backMode "image").
C13_TwoDistinctMaterials ==
  \A k \in PendingExports :
    /\ \A f \in 1..4 : exports[k].objects[f] = exports[k].objects[1]
    /\ DistinctMaterials(exports[k].objects) = 2

\* C14: at most one object URL is live (created and not revoked) at any
\* time.
C14_AtMostOneLiveHandle == Cardinality(LiveObjectUrls) <= 1

\* C15: a file is downloaded only after its header length field has been
\* checked against the size of the buffer.
C15_DownloadOnlyAfterCheck ==
  \A k \in Downloads : exports[k].file.lengthChecked

\* C16: in every downloaded file the total-length field of the header
\* equals the byte length of the file.
C16_HeaderLengthIsFileSize ==
  \A k \in Downloads : exports[k].file.headerTotal = exports[k].file.size

\* C17: whenever handleDownload builds a scene, each of its six faces has
\* the same kind (textured or flat), and when flat the same colour, as the
\* same face of the preview's current material array.
SameFace(a, b) == a.kind = b.kind /\ (a.kind = "flat" => a.color = b.color)

C17_ExportMatchesPreview ==
  [][Len(exports') > Len(exports) =>
       \A f \in 1..6 : SameFace(exports'[Len(exports')].scene[f],
                                materials[f])]_vars

\* C18: once an image has been uploaded, imageUrl never returns to null:
\* the download button stays enabled and the preview box stays mounted.
C18_ImageNeverCleared ==
  [][imageUrl /= NoImage =>
       (imageUrl' /= NoImage /\ DownloadEnabled' /\ Mounted')]_vars

C18_Witness ==
  /\ imageUrl > 1
  /\ Mounted
  /\ DownloadEnabled
  /\ Downloads /= {}
  /\ loading = {}

\* C19: a file-input change event that carries no file changes nothing:
\* imageUrl, extrusion, sideColor, backMode and the active texture keep
\* their values and no texture load is started.
C19_CancelChangesNothing ==
  [][HandleFile(FALSE) =>
       UNCHANGED <<imageUrl, extrusion, sideColor, backMode, texture,
                   loading, materials>>]_vars

C19_Witness ==
  /\ imageUrl /= NoImage
  /\ texture /= NoTex
  /\ loading /= {}
  /\ ENABLED HandleFile(FALSE)
====
